---- MODULE Spec2Model ----
(***************************************************************************)
(* dynamic-tokens: a token's image follows the health percentage of the   *)
(* actor behind it.  Two revisions of the module are modelled:            *)
(*   - src/scripts/dynamic-tokens.js : per-token attribute flag,          *)
(*     ascending threshold resolution (variant "flag");                   *)
(*   - src/unnamed/part_000 : world setting hpPath, descending threshold  *)
(*     resolution with fallback (variant "setting").                      *)
(* SpecResolver exercises the two resolveImage functions as pure          *)
(* functions; Spec is the updateActor hook with its awaited token writes. *)
(***************************************************************************)
EXTENDS Integers, Sequences, FiniteSets, TLC

VARIABLES
    \* ---- resolver harness (SpecResolver) ----
    stored,     \* the threshold flag as stored on the token: Null or <<list>>
    percent,    \* the hpPercent handed to resolveImage
    ascOut,     \* last result of resolveImage (dynamic-tokens.js), or Unset
    descOut,    \* last result of resolveImage (part_000), or Unset
    ascSeen,    \* every result the ascending resolver gave for an ordering of the list
    descSeen,   \* every result the descending resolver gave for an ordering of the list
    reordered,  \* the list was re-saved in another order after both resolvers ran on it
    \* ---- reactor (Spec) ----
    variant,    \* which revision of the hook is installed: "flag" or "setting"
    actor,      \* actor.system: path -> attribute container (or absent)
    flags,      \* per token document: its module flags [attribute, thresholds]
    src,        \* per token document: texture.src
    pending,    \* token writes issued and not yet applied, oldest first, each
                \* carrying the suspended handler that awaits it
    nEvents,    \* number of updateActor events so far
    latest,     \* the latest event's arguments [changes, userId], Null before any
    overlapped, \* some event was handled while an earlier handler was suspended
    wcount,     \* write-counting stub: event -> token -> writes issued
    writers,    \* event -> clients that issued a write for it
    last        \* what the handler segments of the latest step did

vars == <<stored, percent, ascOut, descOut, ascSeen, descSeen, reordered,
          variant, actor, flags, src, pending, nEvents, latest, overlapped,
          wcount, writers, last>>

resolverVars == <<stored, percent, ascOut, descOut, ascSeen, descSeen, reordered>>
reactorVars == <<variant, actor, flags, src, pending, nEvents, latest, overlapped,
                 wcount, writers, last>>

(***************************************************************************)
(* Values                                                                  *)
(***************************************************************************)
\* JavaScript null/undefined for an optional value: the empty tuple; a
\* present value v is the one-element tuple <<v>>.
Null == <<>>
Some(v) == <<v>>

\* resolveImage's "no image" result, and the harness's "not yet called".
NullImg == "null"
Unset == "unset"

\* Longest threshold list of the resolver harness.
MaxLen == 3

Images == {"a", "b", "c"}
ThresholdValues == {25, 75, 100}
Percents == {10, 25, 50, 100, 101}

Entries == [threshold : ThresholdValues, img : Images]

ListsUpTo(n) == UNION {[1..k -> Entries] : k \in 0..n}

(***************************************************************************)
(* resolveImage                                                            *)
(***************************************************************************)
\* Array.prototype.sort is stable: an element goes after every element the
\* comparator does not order behind it (insertion keeps equal keys in their
\* stored order).  desc selects the comparator b.threshold - a.threshold.
RECURSIVE InsertSorted(_, _, _)
InsertSorted(sorted, e, desc) ==
    IF sorted = <<>> THEN <<e>>
    ELSE IF (IF desc THEN e.threshold > Head(sorted).threshold
                     ELSE e.threshold < Head(sorted).threshold)
         THEN <<e>> \o sorted
         ELSE <<Head(sorted)>> \o InsertSorted(Tail(sorted), e, desc)

RECURSIVE SortFrom(_, _, _)
SortFrom(list, acc, desc) ==
    IF list = <<>> THEN acc
    ELSE SortFrom(Tail(list), InsertSorted(acc, Head(list), desc), desc)

\* [...thresholds].sort((a, b) => a.threshold - b.threshold)
SortAscending(list) == SortFrom(list, <<>>, FALSE)

\* Mutant: the list is scanned as stored.
SortDescending_asStored(list) == list

\* [...thresholds].sort((a, b) => b.threshold - a.threshold)
SortDescending(list) == SortFrom(list, <<>>, TRUE)

\* for (const entry of sorted) if (hpPercent <= entry.threshold) return entry.img;
RECURSIVE FirstMatch(_, _, _)
FirstMatch(hpPercent, sorted, fallback) ==
    IF sorted = <<>> THEN fallback
    ELSE IF hpPercent <= Head(sorted).threshold THEN Head(sorted).img
    ELSE FirstMatch(hpPercent, Tail(sorted), fallback)

\* !thresholds?.length
NoThresholds(thresholds) == thresholds = Null \/ Len(thresholds[1]) = 0

\* Mutant: the scan runs over the list as stored, the sort left out.
resolveImage_unsorted(hpPercent, thresholds) ==
    IF NoThresholds(thresholds) THEN NullImg
    ELSE FirstMatch(hpPercent, thresholds[1], NullImg)

\* dynamic-tokens.js: sorts ascending, null when nothing matches.
resolveImage(hpPercent, thresholds) ==
    IF NoThresholds(thresholds) THEN NullImg
    ELSE FirstMatch(hpPercent, SortAscending(thresholds[1]), NullImg)

\* part_000: sorts descending, falls back to sorted[0].img.
resolveImage_part000(hpPercent, thresholds) ==
    IF NoThresholds(thresholds) THEN NullImg
    ELSE LET sorted == SortDescending(thresholds[1])
         IN  FirstMatch(hpPercent, sorted, sorted[1].img)

(***************************************************************************)
(* Resolver harness: one stored threshold list, one percentage; the list   *)
(* may be re-saved in another order (saveThresholds writes the rows in DOM *)
(* order) and each resolver may be called on what is stored.               *)
(***************************************************************************)
ResolverIdle ==
    /\ stored = Null /\ percent = 0
    /\ ascOut = Unset /\ descOut = Unset
    /\ ascSeen = {} /\ descSeen = {} /\ reordered = FALSE

ReactorIdle ==
    /\ variant = "none" /\ actor = <<>> /\ flags = <<>> /\ src = <<>>
    /\ pending = <<>> /\ nEvents = 0 /\ latest = Null /\ overlapped = FALSE
    /\ wcount = <<>> /\ writers = <<>> /\ last = <<>>

InitResolver ==
    /\ stored \in {Null} \cup {Some(l) : l \in ListsUpTo(MaxLen)}
    /\ percent \in Percents
    /\ ascOut = Unset /\ descOut = Unset
    /\ ascSeen = {} /\ descSeen = {} /\ reordered = FALSE
    /\ ReactorIdle

ResolveAscending ==
    /\ ascOut = Unset
    /\ ascOut' = resolveImage(percent, stored)
    /\ ascSeen' = ascSeen \cup {ascOut'}
    /\ UNCHANGED <<stored, percent, descOut, descSeen, reordered>>
    /\ UNCHANGED reactorVars

ResolveDescending ==
    /\ descOut = Unset
    /\ descOut' = resolveImage_part000(percent, stored)
    /\ descSeen' = descSeen \cup {descOut'}
    /\ UNCHANGED <<stored, percent, ascOut, ascSeen, reordered>>
    /\ UNCHANGED reactorVars

\* The same entries stored in another order: rows i and i+1 change places.
Swap(list, i) ==
    [k \in 1..Len(list) |->
        IF k = i THEN list[i + 1] ELSE IF k = i + 1 THEN list[i] ELSE list[k]]

Reorder(i) ==
    /\ stored # Null
    /\ i \in 1..(Len(stored[1]) - 1)
    /\ stored[1][i] # stored[1][i + 1]
    /\ stored' = Some(Swap(stored[1], i))
    /\ reordered' = (reordered \/ (ascOut # Unset /\ descOut # Unset))
    /\ ascOut' = Unset /\ descOut' = Unset
    /\ UNCHANGED <<percent, ascSeen, descSeen>>
    /\ UNCHANGED reactorVars

NextResolver ==
    \/ ResolveAscending
    \/ ResolveDescending
    \/ \E i \in 1..(MaxLen - 1) : Reorder(i)

SpecResolver == InitResolver /\ [][NextResolver]_vars

(***************************************************************************)
(* Reactor: documents, events and the updateActor hook                     *)
(***************************************************************************)
\* Connected clients; client c is logged in as user c (game.user.id).
NumClients == 2
\* Active tokens of the actor on the scene (actor.getActiveTokens).
NumTokens == 2
\* Actor updates in one behaviour.
MaxEvents == 2

Clients == 1..NumClients
Tokens == 1..NumTokens
Events == 1..MaxEvents

GameUserId(c) == c

\* Attribute paths relative to actor.system.
DEFAULT_ATTRIBUTE == "resources.hitPoints"
\* game.settings.get(MODULE_ID, "hpPath"): the registered default,
\* "system.attributes.hp", written relative to actor.system like the flag.
hpPath == "attributes.hp"
AttrPaths == {DEFAULT_ATTRIBUTE, hpPath}
NoPath == "null"

\* An attribute container {value, max, isReversed}; max may be null.  The
\* hit-point resource counts damage taken (isReversed), attributes.hp counts
\* what is left.
Values == {1, 3, 6}
MaxChoices == {Null, Some(0), Some(4)}
InitialContainer(p) ==
    [value |-> 4, max |-> Some(4), isReversed |-> (p = DEFAULT_ATTRIBUTE)]

\* Threshold flags a token may carry.
ReactorThresholds ==
    { Null,
      Some(<<>>),
      Some(<<[threshold |-> 100, img |-> "b"], [threshold |-> 50, img |-> "a"]>>),
      Some(<<[threshold |-> 25, img |-> "b"]>>) }

\* The diff payload of an update: one changed field of one container, or a
\* change elsewhere on the actor (its name).
ChangeChoices ==
    [path : AttrPaths, field : {"value"}, val : {Some(v) : v \in Values}]
    \cup [path : AttrPaths, field : {"max"}, val : MaxChoices]
    \cup [path : {"name"}, field : {"name"}, val : {Null}]

\* Mutant: any changed field of the container counts as its value.
DiffValue_anyField(changes, attrPath) ==
    IF changes.path = attrPath THEN changes.val ELSE Null

\* foundry.utils.getProperty(changes, "system." + attrPath + ".value")
DiffValue(changes, attrPath) ==
    IF changes.path = attrPath /\ changes.field = "value" THEN changes.val ELSE Null

\* resolvePath(actor, "system." + attrPath)
resolvePath(act, attrPath) ==
    IF attrPath \in DOMAIN act THEN act[attrPath] ELSE Null

\* The host applies the update to the actor before the hook runs.  A value
\* for a container the actor does not hold is not stored.
ApplyChange(act, ch) ==
    IF ch.path \in AttrPaths /\ act[ch.path] # Null
    THEN IF ch.field = "value"
         THEN [act EXCEPT ![ch.path] = Some([@[1] EXCEPT !.value = ch.val[1]])]
         ELSE [act EXCEPT ![ch.path] = Some([@[1] EXCEPT !.max = ch.val])]
    ELSE act

\* getThresholds / getAttribute: tokenDoc.getFlag(...) ?? null
getThresholds(t) == flags[t].thresholds
getAttribute(t) == flags[t].attribute

\* Mutant: the max === 0 test left out.
NoPercentage_zeroMaxAllowed(attrData) ==
    attrData = Null \/ attrData[1].max = Null

\* !attrData || attrData.max == null || attrData.max === 0
NoPercentage(attrData) ==
    attrData = Null \/ attrData[1].max = Null \/ attrData[1].max = Some(0)

\* value / max * 100, and (1 - value / max) * 100 when reversed.  The
\* containers of this model have max 4, for which the division is exact in
\* floating point and in integers.  A division by zero gives Infinity in
\* JavaScript: a percentage no threshold reaches.
Quotient100(n, max) == IF max = 0 THEN 100 * 100 * 100 ELSE (n * 100) \div max

\* dynamic-tokens.js: honours attrData.isReversed.
HpPercentFlag(attrData) ==
    IF attrData.isReversed
    THEN Quotient100(attrData.max[1] - attrData.value, attrData.max[1])
    ELSE Quotient100(attrData.value, attrData.max[1])

\* part_000: (hpData.value / hpData.max) * 100.
HpPercentSetting(hpData) == Quotient100(hpData.value, hpData.max[1])

\* Mutant: the comparison with the current image left out.
ShouldWrite_always(newImg, current) == newImg # NullImg

\* if (!newImg) continue; if (tokenDoc.texture?.src !== newImg) update
ShouldWrite(newImg, current) == newImg # NullImg /\ current # newImg

\* Mutant: the hook runs on every client.
RunsOnClient_any(c, userId) == TRUE

\* if (game.user.id !== userId) return;
RunsOnClient(c, userId) == GameUserId(c) = userId

\* One line of the step report: what the handler did with token t (the path
\* it tracked, the container and percentage it read, what resolveImage
\* returned, the texture.src it compared with).
Line(h, t, step, path, data, pct, newImg, current) ==
    [event |-> h.event, client |-> h.client, userId |-> h.userId,
     changes |-> h.changes, token |-> t, next |-> t + 1, step |-> step,
     path |-> path, data |-> data, percent |-> pct, newImg |-> newImg,
     src |-> current]

\* A line about the handler itself (token = 0): how it was entered or left,
\* and the token its loop goes on with.
HandlerLine(h, step, next, data, pct) ==
    [event |-> h.event, client |-> h.client, userId |-> h.userId,
     changes |-> h.changes, token |-> 0, next |-> next, step |-> step,
     path |-> NoPath, data |-> data, percent |-> pct, newImg |-> Unset,
     src |-> ""]

\* The loop body of dynamic-tokens.js for token t, up to the write decision.
TokenStepFlag(h, t, act, sr) ==
    LET attrPath == getAttribute(t)
        thresholds == getThresholds(t)
    IN  IF attrPath = NoPath
        THEN Line(h, t, "noAttribute", NoPath, Null, Null, Unset, "")
        ELSE IF NoThresholds(thresholds)
        THEN Line(h, t, "noThresholds", attrPath, Null, Null, Unset, "")
        ELSE IF DiffValue(h.changes, attrPath) = Null
        THEN Line(h, t, "notInDiff", attrPath, Null, Null, Unset, "")
        ELSE LET attrData == resolvePath(act, attrPath)
             IN  IF NoPercentage(attrData)
                 THEN Line(h, t, "noPercentage", attrPath, attrData, Null, Unset, "")
                 ELSE LET hpPercent == HpPercentFlag(attrData[1])
                      IN  Line(h, t, "resolved", attrPath, attrData,
                               Some(hpPercent),
                               resolveImage(hpPercent, thresholds), sr[t])

\* The loop body of part_000 for token t: hpPercent was computed before the loop.
TokenStepSetting(h, t, act, sr) ==
    LET thresholds == getThresholds(t)
    IN  IF NoThresholds(thresholds)
        THEN Line(h, t, "noThresholds", hpPath, Null, Null, Unset, "")
        ELSE Line(h, t, "resolved", hpPath, h.hpData, h.hpPercent,
                  resolveImage_part000(h.hpPercent[1], thresholds), sr[t])

TokenStep(h, t, act, sr) ==
    IF variant = "flag" THEN TokenStepFlag(h, t, act, sr)
    ELSE TokenStepSetting(h, t, act, sr)

\* Mutant: a guard that fails returns from the handler instead of going on
\* with the next token.
LoopEnds_onGuard(line) == line.step # "resolved"

\* Every guard of the loop body is a `continue`: no token ends the loop.
LoopEnds(line) == FALSE

\* for (const tokenDoc of tokens) ... from token t on, until the handler
\* suspends at an awaited tokenDoc.update or the loop ends.
RECURSIVE Segment(_, _, _, _)
Segment(h, t, act, sr) ==
    IF t > NumTokens THEN [log |-> <<>>, writes |-> <<>>]
    ELSE LET line == TokenStep(h, t, act, sr)
         IN  IF line.step = "resolved" /\ ShouldWrite(line.newImg, line.src)
             THEN [log |-> <<line>>,
                   writes |-> <<[h |-> h, token |-> t, img |-> line.newImg]>>]
             ELSE IF LoopEnds(line) THEN [log |-> <<line>>, writes |-> <<>>]
             ELSE LET rest == Segment(h, t + 1, act, sr)
                  IN  [log |-> <<line>> \o rest.log, writes |-> rest.writes]

\* The handler from its entry to its first suspension (or its end).
HookSetting(h, act, sr) ==
    IF DiffValue(h.changes, hpPath) = Null
    THEN [log |-> <<HandlerLine(h, "notInDiff", NumTokens + 1, Null, Null)>>, writes |-> <<>>]
    ELSE LET hpData == resolvePath(act, hpPath)
         IN  IF NoPercentage(hpData)
             THEN [log |-> <<HandlerLine(h, "noPercentage", NumTokens + 1, hpData, Null)>>,
                   writes |-> <<>>]
             ELSE LET h2 == [h EXCEPT !.hpData = hpData,
                                      !.hpPercent = Some(HpPercentSetting(hpData[1]))]
                      run == Segment(h2, 1, act, sr)
                  IN  [log |-> <<HandlerLine(h2, "loop", 1, hpData, h2.hpPercent)>> \o run.log,
                       writes |-> run.writes]

HookFlag(h, act, sr) ==
    LET run == Segment(h, 1, act, sr)
    IN  [log |-> <<HandlerLine(h, "loop", 1, Null, Null)>> \o run.log,
         writes |-> run.writes]

\* Hooks.on("updateActor", async (actor, changes, options, userId) => ...)
\* on client c.
updateActorHook(c, e, userId, changes, act, sr) ==
    LET h == [event |-> e, client |-> c, userId |-> userId, changes |-> changes,
              hpData |-> Null, hpPercent |-> Null]
    IN  IF ~RunsOnClient(c, userId)
        THEN [log |-> <<HandlerLine(h, "otherUser", NumTokens + 1, Null, Null)>>, writes |-> <<>>]
        ELSE IF variant = "flag" THEN HookFlag(h, act, sr)
        ELSE HookSetting(h, act, sr)

\* The host calls the hook on every client that sees the update.
RECURSIVE Dispatch(_, _, _, _, _, _)
Dispatch(c, e, userId, changes, act, sr) ==
    IF c > NumClients THEN [log |-> <<>>, writes |-> <<>>]
    ELSE LET run == updateActorHook(c, e, userId, changes, act, sr)
             rest == Dispatch(c + 1, e, userId, changes, act, sr)
         IN  [log |-> run.log \o rest.log, writes |-> run.writes \o rest.writes]

\* The write-counting stub.
Counted(count, writes) ==
    [e \in Events |-> [t \in Tokens |->
        count[e][t] + Cardinality({i \in 1..Len(writes) :
                                     writes[i].h.event = e /\ writes[i].token = t})]]

Writing(who, writes) ==
    [e \in Events |->
        who[e] \cup {writes[i].h.client : i \in {j \in 1..Len(writes) : writes[j].h.event = e}}]

TokenFlags ==
    IF variant = "flag"
    THEN [attribute : {NoPath} \cup AttrPaths, thresholds : ReactorThresholds]
    ELSE [attribute : {NoPath}, thresholds : ReactorThresholds]

Init ==
    /\ ResolverIdle
    /\ variant \in {"flag", "setting"}
    /\ actor \in {[p \in AttrPaths |-> IF p \in present THEN Some(InitialContainer(p)) ELSE Null] :
                    present \in SUBSET AttrPaths}
    /\ flags \in [Tokens -> TokenFlags]
    /\ src \in [Tokens -> {"a"}]
    /\ pending = <<>> /\ nEvents = 0 /\ latest = Null /\ overlapped = FALSE
    /\ wcount = [e \in Events |-> [t \in Tokens |-> 0]]
    /\ writers = [e \in Events |-> {}]
    /\ last = <<>>

\* A user updates the actor; the host applies the update and calls the hook
\* on every client; each handler runs to its first awaited write or its end.
UpdateActor(userId, changes) ==
    /\ nEvents < MaxEvents
    /\ LET e == nEvents + 1
           act == ApplyChange(actor, changes)
           run == Dispatch(1, e, userId, changes, act, src)
       IN  /\ actor' = act
           /\ nEvents' = e
           /\ pending' = pending \o run.writes
           /\ wcount' = Counted(wcount, run.writes)
           /\ writers' = Writing(writers, run.writes)
           /\ last' = run.log
    /\ latest' = Some([changes |-> changes, userId |-> userId])
    /\ overlapped' = (overlapped \/ pending # <<>>)
    /\ UNCHANGED <<variant, flags, src>>
    /\ UNCHANGED resolverVars

\* The oldest write in flight is applied to its token document; the promise
\* the issuing handler awaits resolves and the handler goes on with the next
\* token, to its next awaited write or its end.
ApplyWrite ==
    /\ pending # <<>>
    /\ LET w == Head(pending)
           sr == [src EXCEPT ![w.token] = w.img]
           run == Segment(w.h, w.token + 1, actor, sr)
       IN  /\ src' = sr
           /\ pending' = Tail(pending) \o run.writes
           /\ wcount' = Counted(wcount, run.writes)
           /\ writers' = Writing(writers, run.writes)
           /\ last' = <<HandlerLine(w.h, "resume", w.token + 1, w.h.hpData, w.h.hpPercent)>> \o run.log
    /\ UNCHANGED <<variant, actor, flags, nEvents, latest, overlapped>>
    /\ UNCHANGED resolverVars

Next ==
    \/ \E userId \in Clients, changes \in ChangeChoices : UpdateActor(userId, changes)
    \/ ApplyWrite

Spec == Init /\ [][Next]_vars

(***************************************************************************)
(* Claims about resolveImage (checked under SpecResolver)                  *)
(***************************************************************************)
StoredList == IF stored = Null THEN <<>> ELSE stored[1]

\* Indices of the entries whose threshold is >= percent.
Reaching == {i \in 1..Len(StoredList) : StoredList[i].threshold >= percent}

\* The entry the claim names: smallest threshold >= percent; among entries
\* sharing that threshold, the one stored first.
Tightest(i) ==
    /\ i \in Reaching
    /\ \A j \in Reaching :
          \/ StoredList[i].threshold < StoredList[j].threshold
          \/ (StoredList[i].threshold = StoredList[j].threshold /\ i <= j)

\* C1: the ascending resolveImage returns the img of the entry with the
\* smallest threshold >= percent, and null when the list is empty or absent
\* or percent exceeds every threshold.
C1_AscendingTightestMatch ==
    ascOut # Unset =>
        IF Reaching = {} THEN ascOut = NullImg
        ELSE \E i \in Reaching : Tightest(i) /\ ascOut = StoredList[i].img

\* C1's example: thresholds {25:a, 75:b, 100:c} stored out of order, 50 -> b.
C1_Witness ==
    /\ stored = Some(<<[threshold |-> 100, img |-> "c"],
                       [threshold |-> 25, img |-> "a"],
                       [threshold |-> 75, img |-> "b"]>>)
    /\ percent = 50
    /\ ascOut = "b"

\* No two entries share a threshold and differ in image.
NoConflictingTies ==
    \A i, j \in 1..Len(StoredList) :
        StoredList[i].threshold = StoredList[j].threshold
            => StoredList[i].img = StoredList[j].img

OneResultPerList == Cardinality(ascSeen) <= 1 /\ Cardinality(descSeen) <= 1

\* C2 as claimed: for every non-empty list, duplicates with different images
\* included, every ordering of the list gives the same result, in both
\* resolvers.
C2_OrderIndependent ==
    Len(StoredList) > 0 => OneResultPerList

\* C2 amended: for every non-empty list in which entries of equal threshold
\* carry the same image, every ordering of the list gives the same result,
\* in both resolvers.
C2_OrderIndependentWithoutConflictingTies ==
    (Len(StoredList) > 0 /\ NoConflictingTies) => OneResultPerList

\* Both resolvers ran on one ordering, the list was re-saved in another, and
\* both ran again; the list holds a repeated threshold (same image) too.
C2_Witness ==
    /\ reordered /\ ascOut \in Images /\ descOut \in Images
    /\ NoConflictingTies
    /\ \E i, j \in 1..Len(StoredList) :
          i # j /\ StoredList[i].threshold = StoredList[j].threshold
    /\ \E i, j \in 1..Len(StoredList) :
          StoredList[i].threshold # StoredList[j].threshold

TopThreshold(i) ==
    \A j \in 1..Len(StoredList) : StoredList[j].threshold <= StoredList[i].threshold

\* C9: on a non-empty list the two resolvers agree whenever percent is at
\* most the highest threshold; above it the ascending one returns null and
\* the descending one the image of the highest threshold.
C9_VariantsDifferOnlyAboveTop ==
    (ascOut # Unset /\ descOut # Unset /\ Len(StoredList) > 0) =>
        IF Reaching # {} THEN descOut = ascOut
        ELSE /\ ascOut = NullImg
             /\ \E i \in 1..Len(StoredList) :
                   TopThreshold(i) /\ descOut = StoredList[i].img

\* What part_000's resolver does: whatever the percentage, it returns the
\* image of the highest threshold (sorted[0] matches first or is the fallback).
C9_DescendingReturnsTop ==
    (descOut # Unset /\ Len(StoredList) > 0) =>
        \E i \in 1..Len(StoredList) :
            TopThreshold(i) /\ descOut = StoredList[i].img

(***************************************************************************)
(* Claims about the updateActor hook (checked under Spec)                  *)
(***************************************************************************)
Lines == 1..Len(last)
TokenLines == {i \in Lines : last[i].token # 0}

\* The writes in flight that handler (e, c) issued for token t.
WritesBy(e, c, t) ==
    {j \in 1..Len(pending) :
        pending[j].h.event = e /\ pending[j].h.client = c /\ pending[j].token = t}

WritesOf(l) == WritesBy(l.event, l.client, l.token)

\* The diff payload holds a value at <path>.value.
HasValueAt(changes, path) == changes.path = path /\ changes.field = "value"

\* The path whose value the hook watches for token t.
TrackedPath(t) == IF variant = "flag" THEN flags[t].attribute ELSE hpPath

\* The container is absent, or its max is null or zero.
Undefined(data) == data = Null \/ data[1].max = Null \/ data[1].max = Some(0)

\* C3: for every token a handler took to the resolver, a write is issued iff
\* the resolver returned a non-null image that differs from the token's
\* texture.src, and it writes the resolved image; a token the resolver was
\* not called for gets no write.  So a token whose src already is the
\* resolved image gets no write when the event is handled again.
C3_ConditionalWrite ==
    \A i \in TokenLines :
        LET l == last[i]
        IN  /\ Cardinality(WritesOf(l)) <= 1
            /\ l.step = "resolved" => l.src = src[l.token]
            /\ (WritesOf(l) # {}) <=>
                  (l.step = "resolved" /\ l.newImg # NullImg /\ l.newImg # src[l.token])
            /\ \A j \in WritesOf(l) : pending[j].img = l.newImg

\* Event 1 wrote token t and the write was applied; event 2, handled after
\* it, resolves the image the token now shows and issues nothing for it.
C3_Witness ==
    /\ ~overlapped /\ nEvents = 2 /\ pending = <<>>
    /\ \E i \in TokenLines :
          /\ last[i].event = 2 /\ last[i].step = "resolved"
          /\ last[i].newImg = src[last[i].token]
          /\ wcount[1][last[i].token] = 1
          /\ wcount[2][last[i].token] = 0

\* C4: a client whose user is not the event's userId reads no token and
\* issues no write; at most one client issues writes for an event, and no
\* token gets more than one write per event.
C4_InitiatingClientOnly ==
    /\ \A i \in Lines :
          GameUserId(last[i].client) # last[i].userId
              => /\ last[i].token = 0 /\ last[i].step = "otherUser"
                 /\ \A t \in Tokens : WritesBy(last[i].event, last[i].client, t) = {}
    /\ \A j \in 1..Len(pending) : GameUserId(pending[j].h.client) = pending[j].h.userId
    /\ \A e \in Events :
          /\ Cardinality(writers[e]) <= 1
          /\ \A t \in Tokens : wcount[e][t] <= 1
          /\ (e = nEvents /\ latest # Null)
                => \A c \in writers[e] : GameUserId(c) = latest[1].userId

\* An event reached both clients: the other user's client left at the guard
\* while the initiating client issued a write.
C4_Witness ==
    /\ \E i \in Lines : last[i].step = "otherUser" /\ last[i].event = nEvents
    /\ \E t \in Tokens : nEvents >= 1 /\ wcount[nEvents][t] = 1

\* C5: without a value at <tracked path>.value in the diff the handler
\* resolves nothing and writes nothing: per token against the token's own
\* path (flag variant), once for the whole event (setting variant).
C5_NoValueInDiffNoWrite ==
    /\ \A j \in 1..Len(pending) :
          HasValueAt(pending[j].h.changes, TrackedPath(pending[j].token))
    /\ \A i \in TokenLines :
          ~HasValueAt(last[i].changes, TrackedPath(last[i].token))
              => last[i].step \in {"noAttribute", "noThresholds", "notInDiff"}
    /\ \A i \in Lines :
          (variant = "setting" /\ last[i].token = 0 /\ ~HasValueAt(last[i].changes, hpPath)
             /\ GameUserId(last[i].client) = last[i].userId)
              => /\ last[i].step = "notInDiff"
                 /\ \A k \in TokenLines :
                       ~(last[k].event = last[i].event /\ last[k].client = last[i].client)
    /\ \A t \in Tokens :
          (latest # Null /\ ~HasValueAt(latest[1].changes, TrackedPath(t)))
              => wcount[nEvents][t] = 0

\* The image resolveImage gives token t at the actor's present value/max.
PresentImage(t) ==
    LET data == resolvePath(actor, TrackedPath(t))
    IN  IF Undefined(data) \/ NoThresholds(flags[t].thresholds) THEN NullImg
        ELSE IF variant = "flag"
             THEN resolveImage(HpPercentFlag(data[1]), flags[t].thresholds)
             ELSE resolveImage_part000(HpPercentSetting(data[1]), flags[t].thresholds)

\* The latest update changed only max (or another field): the token shows an
\* image other than the one its thresholds give, and nothing was written.
C5_Witness ==
    /\ latest # Null /\ pending = <<>>
    /\ \E t \in Tokens :
          /\ TrackedPath(t) # NoPath
          /\ ~HasValueAt(latest[1].changes, TrackedPath(t))
          /\ PresentImage(t) \notin {NullImg, src[t]}
          /\ wcount[nEvents][t] = 0
          /\ \E i \in Lines : last[i].step = "notInDiff" /\ last[i].token \in {0, t}

\* C6: when the container at the tracked path is absent or its max is null
\* or zero, no percentage is computed, resolveImage is not called and nothing
\* is written for the token (flag variant) or for any token (setting variant).
C6_UndefinedPercentageSkipped ==
    \A i \in Lines :
        LET l == last[i]
            readHere == \/ (variant = "flag" /\ l.step \in {"noPercentage", "resolved"})
                        \/ (variant = "setting" /\ l.token = 0
                              /\ l.step \in {"noPercentage", "loop"})
        IN  /\ readHere => l.data = resolvePath(actor, IF variant = "flag" THEN l.path ELSE hpPath)
            /\ (readHere /\ Undefined(l.data)) =>
                  /\ l.step = "noPercentage" /\ l.percent = Null /\ l.newImg = Unset
                  /\ \A t \in Tokens :
                        (l.token = t \/ l.token = 0) => WritesBy(l.event, l.client, t) = {}
                  /\ l.token = 0 =>
                        \A k \in TokenLines :
                            ~(last[k].event = l.event /\ last[k].client = l.client)
            /\ (readHere /\ ~Undefined(l.data)) => l.step # "noPercentage"
            /\ l.step = "resolved" => (l.percent # Null /\ ~Undefined(l.data))

\* The value changed on a container whose max is zero.
C6_Witness ==
    \E i \in Lines :
        /\ last[i].step = "noPercentage"
        /\ last[i].data # Null /\ last[i].data[1].max = Some(0)
        /\ HasValueAt(last[i].changes, TrackedPath(IF last[i].token = 0 THEN 1 ELSE last[i].token))

\* Token line l passed every guard of its handler.
PassedGuards(l) ==
    /\ TrackedPath(l.token) # NoPath
    /\ ~NoThresholds(flags[l.token].thresholds)
    /\ HasValueAt(l.changes, TrackedPath(l.token))
    /\ ~Undefined(l.data)

\* The resolver of the installed revision.
Resolver(pct, thresholds) ==
    IF variant = "flag" THEN resolveImage(pct, thresholds)
    ELSE resolveImage_part000(pct, thresholds)

\* C7: in every run of the loop a token that fails a guard is skipped and
\* the next token of the list is processed; a token gets its write exactly
\* when it passes all guards and the image resolved from its own thresholds
\* differs from its current image.
C7_SiblingIsolation ==
    \A i \in Lines :
        LET l == last[i]
            inLoop == l.token # 0 \/ l.step \in {"loop", "resume"}
            wrote == l.token # 0 /\ WritesOf(l) # {}
        IN  /\ (inLoop /\ ~wrote /\ l.next <= NumTokens) =>
                  /\ i + 1 <= Len(last)
                  /\ last[i + 1].token = l.next
                  /\ last[i + 1].event = l.event /\ last[i + 1].client = l.client
            /\ wrote => (i = Len(last) \/ last[i + 1].token = 0)
            /\ l.token # 0 =>
                  (wrote <=>
                     /\ PassedGuards(l)
                     /\ Resolver(l.percent[1], flags[l.token].thresholds)
                            \notin {NullImg, src[l.token]})
            /\ wrote =>
                  \A j \in WritesOf(l) :
                      pending[j].img = Resolver(l.percent[1], flags[l.token].thresholds)

\* Token 1 failed a guard and token 2, with thresholds of its own, got its
\* write in the same run of the loop.
C7_Witness ==
    \E i \in TokenLines :
        /\ i + 1 \in TokenLines
        /\ last[i].token = 1 /\ last[i].step # "resolved"
        /\ last[i + 1].token = 2 /\ WritesOf(last[i + 1]) # {}
        /\ flags[1].thresholds # flags[2].thresholds

\* The configured default path of the installed revision.
DefaultPath == IF variant = "flag" THEN DEFAULT_ATTRIBUTE ELSE hpPath

\* C8: for every token with a non-empty threshold list the hook tracks the
\* token's attribute flag when it is set and the default path otherwise, so
\* a token without the flag is taken to the resolver when the default
\* attribute's value changed.
C8_DefaultPathFallback ==
    \A i \in TokenLines :
        LET l == last[i]
            want == IF flags[l.token].attribute # NoPath
                    THEN flags[l.token].attribute ELSE DefaultPath
        IN  ~NoThresholds(flags[l.token].thresholds) =>
                /\ l.path = want
                /\ (HasValueAt(l.changes, want) /\ ~Undefined(resolvePath(actor, want)))
                    => l.step = "resolved"

\* What dynamic-tokens.js does instead: a token without the attribute flag
\* is skipped before its thresholds are read.
C8_NoFlagSkipped ==
    \A i \in TokenLines :
        (variant = "flag" /\ flags[last[i].token].attribute = NoPath)
            => (last[i].step = "noAttribute" /\ WritesOf(last[i]) = {})

\* C10: once an event was handled while an earlier handler was suspended at
\* its write, and every handler has finished and every write is applied,
\* each token the latest event concerns shows the image resolved at the
\* actor's final value/max (when that image is not null).
C10_NoStaleImageAfterOverlap ==
    (overlapped /\ pending = <<>>) =>
        \A t \in Tokens :
            (/\ TrackedPath(t) # NoPath
             /\ HasValueAt(latest[1].changes, TrackedPath(t))
             /\ PresentImage(t) # NullImg)
                => src[t] = PresentImage(t)

====
